---- MODULE Spec2Model ----
(***************************************************************************)
(* Model of the laptop.lk scrapers.                                        *)
(*                                                                         *)
(*   src/Laptops.lk/scripts/LaptoplkScraper.py  the asyncio sitemap        *)
(*       pipeline: AsyncLaptopLKScraper.fetch_page / parse_product_data /  *)
(*       save_data, fetch_and_parse_product, main                          *)
(*   src/scraper.py  the thread-pool pagination pipeline: fetch_soup,      *)
(*       get_all_category_links, get_all_product_links,                    *)
(*       scrape_product_details, main                                      *)
(*                                                                         *)
(* One behaviour is one run of one program.  `pipeline` says which:        *)
(*   "sitemap"     LaptoplkScraper.main                                    *)
(*   "pagination"  scraper.main                                            *)
(*   "extract"     one call of the extractors on one page (pure functions) *)
(* The site is the environment: every response is chosen when the request  *)
(* is answered.                                                            *)
(***************************************************************************)
EXTENDS Integers, Sequences, FiniteSets

VARIABLES
    pipeline,             \* which program this behaviour runs
    mainpc,               \* position of main()
    tasks,                \* the fetch tasks created so far, in creation order
    semaphore,            \* AsyncLaptopLKScraper.semaphore: free slots
    product_sitemap_urls, \* LaptoplkScraper.main, line 101
    product_urls_list,    \* LaptoplkScraper.main, line 107
    all_products_data,    \* LaptoplkScraper.main, line 115
    cats,                 \* scraper.main, line 132
    cat_i,                \* scraper.main, index of the category of the for loop
    walk,                 \* get_all_product_links: page, urls, request in flight
    prod_links,           \* scraper.main, line 139: the urls not yet submitted
    all_data,             \* scraper.main, line 130
    output,               \* the JSON artifact written, if any
    retval,               \* what main() returned
    page_in,              \* "extract": the page handed to the extractors
    extracted             \* "extract": what the extractors returned

vars == <<pipeline, mainpc, tasks, semaphore, product_sitemap_urls,
          product_urls_list, all_products_data, cats, cat_i, walk,
          prod_links, all_data, output, retval, page_in, extracted>>

-----------------------------------------------------------------------------
(* Configuration *)

\* AsyncLaptopLKScraper(max_connections = 25): the size of the semaphore.
\* The model runs with a smaller gate than the default so that tasks queue.
max_connections == 2

\* AsyncLaptopLKScraper(max_retries = 3)
max_retries == 3

\* scraper.MAX_WORKERS = 10: the size of the thread pool.  The model runs
\* with a smaller pool than the source so that submitted tasks queue.
MAX_WORKERS == 2

\* scraper.MAX_RETRIES = 2
MAX_RETRIES == 2

\* The product links the site lists in all its category pages together.
MaxLinks == 3

\* The listing pages of a category that carry product links.
MaxPages == 3

\* The length of the price texts enumerated in full.
MaxLen == 2

\* The category labels of a product page.
MaxLabels == 3

-----------------------------------------------------------------------------
(* Values *)

\* Python's None for text-valued fields (a text is a sequence of characters).
None == <<"None">>

\* What a call ends in: a value, "nothing", or an exception.
\*   Html(doc) / Ok(rec)  the fetched document / the extracted record
\*   Failure / Null       fetch_page's None, fetch_soup's empty soup /
\*                        the extractor's None
\*   Raised               the call raised
Html(doc) == [ok |-> TRUE, exc |-> FALSE, body |-> doc]

Ok(rec) == [ok |-> TRUE, exc |-> FALSE, body |-> rec]

Failure == [ok |-> FALSE, exc |-> FALSE, body |-> <<>>]

Null == [ok |-> FALSE, exc |-> FALSE, body |-> <<>>]

Raised == [ok |-> FALSE, exc |-> TRUE, body |-> <<>>]

Range(s) == {s[i] : i \in DOMAIN s}

RECURSIVE Flatten(_)
Flatten(ss) == IF ss = <<>> THEN <<>> ELSE Head(ss) \o Flatten(Tail(ss))

\* The sequences over S of length at most n.
RECURSIVE SeqsUpTo(_, _)
SeqsUpTo(S, n) ==
    IF n = 0 THEN {<<>>}
    ELSE LET shorter == SeqsUpTo(S, n - 1)
         IN  shorter \cup {Append(s, c) : s \in shorter, c \in S}

\* The orders in which a Python set can be iterated: its permutations.
Orders(S) == {s \in SeqsUpTo(S, Cardinality(S)) :
                 Len(s) = Cardinality(S) /\ Range(s) = S}

-----------------------------------------------------------------------------
(* The outcomes of one HTTP attempt *)

\* The exceptions an attempt can end in.  TimeoutException and ConnectError
\* are subclasses of httpx.RequestError (requests: Timeout and
\* ConnectionError of RequestException); raise_for_status raises
\* HTTPStatusError (requests: HTTPError, a RequestException).
RequestError == {"ConnectError", "TimeoutException"}

Errors == RequestError \cup {"HTTPStatusError"}

\* The url is refused before any request is sent (a loc text with line
\* breaks): httpx.InvalidURL is no httpx.RequestError, requests' InvalidURL
\* is a RequestException.
InvalidURL == "InvalidURL"

-----------------------------------------------------------------------------
(* Texts: a text is a sequence of one-character strings *)

Digits == {"0", "1", "2", "3", "4", "5", "6", "7", "8", "9"}

\* re.sub(r'[^\d.]', '', text), lines 62-63: every character that is neither
\* a digit nor '.' is removed, the others keep their order.
IsPriceChar(c) == c \in Digits \cup {"."}

\* re.sub(r'[^\d.]', '', text, count=1): only the first such character is
\* removed.
normalizePrice_first_only(text) ==
    IF \E i \in DOMAIN text : ~IsPriceChar(text[i])
    THEN LET i == CHOOSE i \in DOMAIN text :
                      /\ ~IsPriceChar(text[i])
                      /\ \A j \in 1..(i - 1) : IsPriceChar(text[j])
         IN  SubSeq(text, 1, i - 1) \o SubSeq(text, i + 1, Len(text))
    ELSE text

normalizePrice(text) == SelectSeq(text, IsPriceChar)

RECURSIVE LStrip(_)
LStrip(text) ==
    IF text # <<>> /\ Head(text) = " " THEN LStrip(Tail(text)) ELSE text

RECURSIVE RStrip(_)
RStrip(text) ==
    IF text # <<>> /\ text[Len(text)] = " "
    THEN RStrip(SubSeq(text, 1, Len(text) - 1))
    ELSE text

\* node.text(strip=True) / get_text(strip=True) / str.strip()
Strip(text) == LStrip(RStrip(text))

UpperCase == <<"A", "D", "H", "L", "M", "P", "S">>

LowerCase == <<"a", "d", "h", "l", "m", "p", "s">>

\* str.lower(), on the letters the label texts are made of.
lower(text) ==
    [i \in DOMAIN text |->
        IF \E k \in DOMAIN UpperCase : UpperCase[k] = text[i]
        THEN LowerCase[CHOOSE k \in DOMAIN UpperCase : UpperCase[k] = text[i]]
        ELSE text[i]]

\* The index of the first c in text, 0 when there is none.
Find(text, c) ==
    IF \E i \in DOMAIN text : text[i] = c
    THEN CHOOSE i \in DOMAIN text :
             text[i] = c /\ \A j \in 1..(i - 1) : text[j] # c
    ELSE 0

-----------------------------------------------------------------------------
(* Pages.  A page is what the selectors of the two extractors see of it:   *)
(*   container  a div whose id starts with "product-" exists               *)
(*   cid        that id, split at '-'                                      *)
(*   title      text of h1.product_title, or None                          *)
(*   amounts    the .amount nodes under p.price / span.electro-price in    *)
(*              document order, each with the alternative it matches:      *)
(*                1  p.price ins .amount      2  span.electro-price ins .amount *)
(*                3  p.price > .amount        4  span.electro-price > .amount   *)
(*                5  p.price del .amount      6  span.electro-price del .amount *)
(*   bdi        text of the first "p.price bdi", or None                   *)
(*   categories the texts of the "span.posted_in a" nodes, in order        *)
(*   has_table  table.shop_attributes exists                               *)
(*   rows       its tr rows: th and td text, None for a missing cell       *)
(*   spec_lines the lines of div#tab-specification (<<>> when absent)      *)
(*   malformed  reading the tree raises inside parse_product_data          *)
(***************************************************************************)

\* Line 60: the alternatives of the current-price selector list, in the
\* order of the list.
CurrentAlternatives == <<1, 2, 3, 4>>

\* Line 61: the alternatives of the original-price selector list.
OriginalAlternatives == <<5, 6>>

\* css_first(selector list): selectolax evaluates the alternatives of the
\* list one after the other, in the order of the list, and collects each
\* one's matches in document order; css_first is the first node collected:
\* the first node in document order of the first alternative that matches
\* any node.  None when no alternative matches.
css_first(nodes, alternatives) ==
    LET matches(k) == \E i \in DOMAIN nodes : nodes[i].sel = alternatives[k]
    IN  IF \E k \in DOMAIN alternatives : matches(k)
        THEN LET k == CHOOSE k \in DOMAIN alternatives :
                          /\ matches(k)
                          /\ \A j \in 1..(k - 1) : ~matches(j)
                 i == CHOOSE i \in DOMAIN nodes :
                          /\ nodes[i].sel = alternatives[k]
                          /\ \A j \in 1..(i - 1) :
                                nodes[j].sel # alternatives[k]
             IN  Html(nodes[i])
        ELSE Failure

\* BeautifulSoup("", "lxml"): the soup fetch_soup returns on failure.
EmptySoup ==
    [container |-> FALSE, cid |-> <<>>, title |-> None, amounts |-> <<>>,
     bdi |-> None, categories |-> <<>>, has_table |-> FALSE, rows |-> <<>>,
     spec_lines |-> <<>>, malformed |-> FALSE]

\* Line 54: the known-brand vocabulary.
KnownBrands ==
    {<<"h", "p">>, <<"d", "e", "l", "l">>, <<"a", "p", "p", "l", "e">>,
     <<"l", "e", "n", "o", "v", "o">>, <<"a", "s", "u", "s">>,
     <<"m", "s", "i">>, <<"a", "c", "e", "r">>,
     <<"s", "a", "m", "s", "u", "n", "g">>}

\* Line 54: next((cat for cat in all_categories if cat.lower() in [...]), None)
brand_of(all_categories) ==
    IF \E i \in DOMAIN all_categories : lower(all_categories[i]) \in KnownBrands
    THEN all_categories[CHOOSE i \in DOMAIN all_categories :
             /\ lower(all_categories[i]) \in KnownBrands
             /\ \A j \in 1..(i - 1) :
                   lower(all_categories[j]) \notin KnownBrands]
    ELSE None

\* Line 55: [c for c in all_categories if c.lower() != (brand or '').lower()]
category_path_of(all_categories, brand) ==
    LET brand_or_empty == IF brand = None THEN <<>> ELSE brand
    IN  SelectSeq(all_categories,
                  LAMBDA c : lower(c) # lower(brand_or_empty))

\* Lines 38-74: the body of parse_product_data's try block.
parse_product_data_try(html, url) ==
    IF html.malformed THEN Raised
    ELSE IF ~html.container THEN Null
    ELSE
      LET product_id == html.cid[Len(html.cid)]
          all_categories == [i \in DOMAIN html.categories |->
                                Strip(html.categories[i])]
          brand == brand_of(all_categories)
          price_curr_node == css_first(html.amounts, CurrentAlternatives)
          price_orig_node == css_first(html.amounts, OriginalAlternatives)
          price_current ==
              IF price_curr_node.ok
              THEN normalizePrice(Strip(price_curr_node.body.text))
              ELSE <<"0">>
          price_original ==
              IF price_orig_node.ok
              THEN normalizePrice(Strip(price_orig_node.body.text))
              ELSE None
      IN  Ok([product_id_native |-> product_id,
              product_url       |-> url,
              product_title     |-> IF html.title = None THEN None
                                    ELSE Strip(html.title),
              brand             |-> brand,
              category_path     |-> category_path_of(all_categories, brand),
              price_current     |-> price_current,
              price_original    |-> price_original,
              currency          |-> "LKR"])

\* Lines 36-76: except Exception: return None
parse_product_data(html, url) ==
    LET r == parse_product_data_try(html, url)
    IN  IF r.exc THEN Null ELSE r

\* A Python dict built by assigning d[k] = v for the pairs in order.
RECURSIVE DictOf(_)
DictOf(pairs) ==
    IF pairs = <<>> THEN <<>>
    ELSE LET n == Len(pairs)
             d == DictOf(SubSeq(pairs, 1, n - 1))
         IN  [k \in (DOMAIN d) \cup {pairs[n][1]} |->
                 IF k = pairs[n][1] THEN pairs[n][2] ELSE d[k]]

\* Lines 101-104: the "key: value" lines of the specification block.
SpecLinePairs(lines) ==
    LET withColon == SelectSeq(lines, LAMBDA l : Find(l, ":") # 0)
    IN  [i \in DOMAIN withColon |->
            LET l == withColon[i]
                c == Find(l, ":")
            IN  <<Strip(SubSeq(l, 1, c - 1)), Strip(SubSeq(l, c + 1, Len(l)))>>]

\* Lines 81-126, applied to the soup fetch_soup returned.  tr.select_one("th")
\* is None for a row without that cell and .get_text raises AttributeError.
scrape_product_details(soup, category) ==
    IF soup.has_table /\ \E i \in DOMAIN soup.rows :
                             soup.rows[i].th = None \/ soup.rows[i].td = None
    THEN Raised
    ELSE
      LET pairs == IF soup.has_table
                   THEN [i \in DOMAIN soup.rows |->
                            <<Strip(soup.rows[i].th), Strip(soup.rows[i].td)>>]
                   ELSE SpecLinePairs(soup.spec_lines)
          specs == DictOf(pairs)
      IN  Ok([category       |-> category,
              title          |-> IF soup.title = None
                                 THEN <<"No title">> ELSE Strip(soup.title),
              price          |-> IF soup.bdi = None
                                 THEN <<"No price">> ELSE Strip(soup.bdi),
              found_specs    |-> DOMAIN specs # {},
              specifications |-> specs])

-----------------------------------------------------------------------------
(* The site *)

\* Product page URLs.
URLS == {"u1", "u2", "u3"}

\* 'product-sitemap' in node.text(), line 101
IsProductSitemap(loc) == loc \in {"product-sitemap1.xml", "product-sitemap2.xml"}

\* Sitemap index documents: their <loc> texts in document order.
IndexDocs ==
    {<<>>,
     <<"post-sitemap.xml">>,
     <<"product-sitemap1.xml">>,
     <<"post-sitemap.xml", "product-sitemap1.xml", "product-sitemap2.xml">>}

\* Product sitemap documents: their url > loc texts in document order.
SitemapDocs == {<<>>, <<"u1", "u2">>, <<"u2", "u3">>, <<"u3", "u3">>}

Amount(sel, text) == [sel |-> sel, text |-> text]

ProductPage(id, amounts) ==
    [container |-> TRUE, cid |-> <<"product", id>>, title |-> <<"T">>,
     amounts |-> amounts, bdi |-> <<"R", "s", "5">>, categories |-> <<>>,
     has_table |-> FALSE, rows |-> <<>>, spec_lines |-> <<>>,
     malformed |-> FALSE]

\* A product page whose attribute table has a row without value cell.
BadRowPage ==
    [ProductPage("8", <<>>) EXCEPT
        !.has_table = TRUE, !.rows = <<[th |-> <<"k">>, td |-> None]>>]

\* The pages a product URL can answer with: two products (the same product
\* can be served under several URLs), a page without product container, a
\* page whose tree cannot be read.
SitePages ==
    {ProductPage("7", <<Amount(3, <<"R", "s", "5">>)>>),
     ProductPage("8", <<>>),
     [EmptySoup EXCEPT !.title = <<"T">>],
     [ProductPage("7", <<>>) EXCEPT !.malformed = TRUE]}

\* The pages a product URL answers the pagination pipeline with: a product,
\* a page that is no product page, a page with a broken attribute table.
ShopPages ==
    {ProductPage("7", <<Amount(3, <<"R", "s", "5">>)>>),
     [EmptySoup EXCEPT !.title = <<"T">>],
     BadRowPage}

-----------------------------------------------------------------------------
(* Fetch tasks *)
(*   kind      "index", "sitemap", "product" (sitemap pipeline);           *)
(*             "root", "product" (pagination pipeline)                     *)
(*   pc        "wait"     not admitted yet (semaphore / executor queue)    *)
(*             "request"  an HTTP attempt is outstanding                   *)
(*             "sleep"    in the back-off delay before the next attempt    *)
(*             "returned" the task is over                                 *)
(*   attempt   the loop variable of the retry loop                         *)
(*   attempts  the number of HTTP attempts the running fetch has issued    *)
(*             (both are locals of the fetch and end with it)              *)
(*   delay     the seconds of the back-off delay the task is sleeping      *)
(*   html      what the fetch returned                                     *)
(*   ret       what the task returned: a record, None, or an exception     *)
(*   collected scraper.main has taken the future's result                  *)
(***************************************************************************)

NewTask(kind, url, category) ==
    [kind |-> kind, url |-> url, category |-> category, pc |-> "wait",
     attempt |-> 0, attempts |-> 0, delay |-> 0, html |-> Failure,
     ret |-> Null, collected |-> FALSE]

\* The task is over: its fetch returned html (or raised) and the task ended
\* with ret.
Over(task, html, ret) ==
    [task EXCEPT !.pc = "returned", !.attempt = 0, !.attempts = 0,
                 !.delay = 0, !.html = html, !.ret = ret]

TasksOf(kind) == {t \in DOMAIN tasks : tasks[t].kind = kind}

Outstanding(t) == tasks[t].pc = "request"

\* The documents a task's URL can answer with.
DocsFor(kind) ==
    CASE kind = "index"   -> IndexDocs
      [] kind = "sitemap" -> SitemapDocs
      [] kind = "product" -> SitePages
      [] OTHER            -> {<<>>}

-----------------------------------------------------------------------------
(* LaptoplkScraper.py: AsyncLaptopLKScraper.fetch_page *)

\* Line 30: except (httpx.RequestError, httpx.HTTPStatusError)
fetch_page_caught == RequestError \cup {"HTTPStatusError"}

\* Line 25: for attempt in range(self.max_retries) has this iteration
fetch_page_in_range(attempt) == attempt < max_retries

\* Line 31: if attempt + 1 == self.max_retries: break
fetch_page_last(attempt) == attempt + 1 = max_retries

\* A retry loop that never gives up.
fetch_page_exhausted_never(attempt) == FALSE

\* Lines 25, 31: after the failed attempt the loop is over: by the break, or
\* by the end of the range.
fetch_page_exhausted(attempt) ==
    fetch_page_last(attempt) \/ ~fetch_page_in_range(attempt + 1)

\* Lines 85-89: what fetch_and_parse_product makes of the fetched html.
fetch_and_parse_product(html, url) ==
    IF html.ok THEN parse_product_data(html.body, url) ELSE Null

\* The task's coroutine is over: fetch_page returned html (the semaphore is
\* released by the async with) and, for a product task, the page is parsed.
Return_page(t, html) ==
    /\ semaphore' = semaphore + 1
    /\ tasks' = [tasks EXCEPT ![t] = Over(tasks[t], html,
                    IF tasks[t].kind = "product"
                    THEN fetch_and_parse_product(html, tasks[t].url)
                    ELSE Null)]

\* 2 ** n
RECURSIVE Pow2(_)
Pow2(n) == IF n <= 0 THEN 1 ELSE 2 * Pow2(n - 1)

\* The semaphore taken inside the loop, around client.get alone: the slot is
\* given back before the delay.
fetch_page_backoff_released(t) ==
    /\ semaphore' = semaphore + 1
    /\ tasks' = [tasks EXCEPT ![t].pc = "sleep",
                              ![t].delay = Pow2(tasks[t].attempt)]

\* Line 32: await asyncio.sleep(2 ** attempt), inside the async with.
fetch_page_backoff(t) ==
    /\ semaphore' = semaphore
    /\ tasks' = [tasks EXCEPT ![t].pc = "sleep",
                              ![t].delay = Pow2(tasks[t].attempt)]

\* fetch_page without the async with: the first client.get is issued at once.
fetch_page_ungated(t) ==
    /\ pipeline = "sitemap"
    /\ mainpc # "cancelled"
    /\ tasks[t].pc = "wait"
    /\ semaphore' = semaphore - 1
    /\ tasks' = [tasks EXCEPT ![t].pc = "request", ![t].attempt = 0,
                              ![t].attempts = 1]
    /\ UNCHANGED <<pipeline, mainpc, product_sitemap_urls, product_urls_list,
                   all_products_data, cats, cat_i, walk, all_data, output,
                   retval, page_in, extracted,
                   prod_links>>

\* Line 24: async with self.semaphore, up to the first client.get.
fetch_page_acquire(t) ==
    /\ pipeline = "sitemap"
    /\ mainpc # "cancelled"
    /\ tasks[t].pc = "wait"
    /\ semaphore > 0
    /\ IF fetch_page_in_range(0)
       THEN /\ semaphore' = semaphore - 1
            /\ tasks' = [tasks EXCEPT ![t].pc = "request", ![t].attempt = 0,
                                      ![t].attempts = 1]
       ELSE /\ semaphore' = semaphore
            /\ tasks' = [tasks EXCEPT ![t] = Over(tasks[t], Failure, Null)]
    /\ UNCHANGED <<pipeline, mainpc, product_sitemap_urls, product_urls_list,
                   all_products_data, cats, cat_i, walk, all_data, output,
                   retval, page_in, extracted,
                   prod_links>>

\* Lines 27-32: the attempt ends: with a response (return response.text), or
\* with an exception (break after the last attempt, else asyncio.sleep).
fetch_page_respond(t, outcome, doc) ==
    /\ pipeline = "sitemap"
    /\ mainpc # "cancelled"
    /\ tasks[t].pc = "request"
    /\ IF outcome = "ok"
       THEN Return_page(t, Html(doc))
       ELSE IF outcome \notin fetch_page_caught
       THEN /\ semaphore' = semaphore + 1
            /\ tasks' = [tasks EXCEPT ![t] = Over(tasks[t], Raised, Raised)]
       ELSE IF fetch_page_exhausted(tasks[t].attempt)
       THEN Return_page(t, Failure)
       ELSE fetch_page_backoff(t)
    /\ UNCHANGED <<pipeline, mainpc, product_sitemap_urls, product_urls_list,
                   all_products_data, cats, cat_i, walk, all_data, output,
                   retval, page_in, extracted,
                   prod_links>>

\* Line 32 is over: asyncio.sleep(2 ** attempt) ends, the next iteration
\* issues its client.get.
fetch_page_retry(t) ==
    /\ pipeline = "sitemap"
    /\ mainpc # "cancelled"
    /\ tasks[t].pc = "sleep"
    /\ tasks' = [tasks EXCEPT ![t].pc = "request", ![t].delay = 0,
                              ![t].attempt = tasks[t].attempt + 1,
                              ![t].attempts = tasks[t].attempts + 1]
    /\ UNCHANGED <<pipeline, mainpc, semaphore, product_sitemap_urls,
                   product_urls_list, all_products_data, cats, cat_i, walk,
                   all_data, output, retval, page_in, extracted,
                   prod_links>>

\* asyncio.run (line 125) has cancelled the task: CancelledError is raised
\* at its await and leaves the async with, which gives back a slot held.
fetch_page_cancelled(t) ==
    /\ pipeline = "sitemap"
    /\ mainpc = "cancelled"
    /\ tasks[t].pc # "returned"
    /\ semaphore' = IF tasks[t].pc = "wait" THEN semaphore ELSE semaphore + 1
    /\ tasks' = [tasks EXCEPT ![t] = Over(tasks[t], Raised, Raised)]
    /\ UNCHANGED <<pipeline, mainpc, product_sitemap_urls, product_urls_list,
                   all_products_data, cats, cat_i, walk, prod_links, all_data,
                   output, retval, page_in, extracted>>

-----------------------------------------------------------------------------
(* LaptoplkScraper.py: save_data and main *)

\* Lines 78-81: the JSON document save_data writes.
save_data(data) ==
    [written |-> TRUE, total_products_extracted |-> Len(data),
     products |-> data]

\* asyncio.gather(*tasks) is over: every task returned, or one raised (gather
\* then raises in main at once).
Gathered(kind) ==
    \/ \A t \in TasksOf(kind) : tasks[t].pc = "returned"
    \/ \E t \in TasksOf(kind) : tasks[t].pc = "returned" /\ tasks[t].ret.exc

GatherRaised(kind) ==
    \E t \in TasksOf(kind) : tasks[t].pc = "returned" /\ tasks[t].ret.exc

\* Line 101: the product sitemaps of the index, in document order.
ProductSitemapsOf(index_xml) == SelectSeq(index_xml, IsProductSitemap)

\* Line 106 without the set: every loc of every fetched sitemap, in order.
AllLeafUrls ==
    Flatten([i \in 1..Len(product_sitemap_urls) |->
                LET t == 1 + i
                IN  IF tasks[t].html.ok THEN tasks[t].html.body ELSE <<>>])

\* Line 106: the set comprehension over the sitemaps that were fetched.
unique_product_urls == Range(AllLeafUrls)

\* Line 107 over a list comprehension in line 106: every loc, repeated or not.
ProductUrlLists_undeduplicated == {AllLeafUrls}

\* Line 107: list(unique_product_urls), in one of the set's iteration orders.
ProductUrlLists == Orders(unique_product_urls)

\* Line 115: [item for item in results if item is not None], the results in
\* the order of the tasks.
Results(first, n) ==
    LET results == [i \in 1..n |-> tasks[first + i - 1].ret]
        kept    == SelectSeq(results, LAMBDA r : r.ok)
    IN  [i \in DOMAIN kept |-> kept[i].body]

\* Lines 93-98: main starts and awaits the fetch of the sitemap index.
main_start ==
    /\ pipeline = "sitemap"
    /\ mainpc = "start"
    /\ tasks' = <<NewTask("index", "sitemap_index.xml", "")>>
    /\ mainpc' = "index"
    /\ UNCHANGED <<pipeline, semaphore, product_sitemap_urls,
                   product_urls_list, all_products_data, cats, cat_i, walk,
                   all_data, output, retval, page_in, extracted,
                   prod_links>>

\* Lines 99-104: the index is back; return 0 without it, else gather the
\* fetches of the product sitemaps.
main_index ==
    /\ pipeline = "sitemap"
    /\ mainpc = "index"
    /\ Gathered("index")
    /\ IF GatherRaised("index")
       THEN /\ mainpc' = "crashed"
            /\ UNCHANGED <<tasks, product_sitemap_urls, retval>>
       ELSE IF ~tasks[1].html.ok
       THEN /\ mainpc' = "done"
            /\ retval' = 0
            /\ UNCHANGED <<tasks, product_sitemap_urls>>
       ELSE LET urls == ProductSitemapsOf(tasks[1].html.body)
            IN  /\ product_sitemap_urls' = urls
                /\ tasks' = tasks \o [i \in DOMAIN urls |->
                                         NewTask("sitemap", urls[i], "")]
                /\ mainpc' = "sitemaps"
                /\ UNCHANGED retval
    /\ UNCHANGED <<pipeline, semaphore, product_urls_list, all_products_data,
                   cats, cat_i, walk, all_data, output, page_in, extracted,
                   prod_links>>

\* Lines 104-114: the sitemaps are back; return 0 without product URLs,
\* else gather one fetch_and_parse_product per unique URL.
main_sitemaps ==
    /\ pipeline = "sitemap"
    /\ mainpc = "sitemaps"
    /\ Gathered("sitemap")
    /\ IF GatherRaised("sitemap")
       THEN /\ mainpc' = "crashed"
            /\ UNCHANGED <<tasks, product_urls_list, retval>>
       ELSE \E list \in ProductUrlLists :
              /\ product_urls_list' = list
              /\ IF list = <<>>
                 THEN /\ mainpc' = "done"
                      /\ retval' = 0
                      /\ UNCHANGED tasks
                 ELSE /\ tasks' = tasks \o [i \in DOMAIN list |->
                                              NewTask("product", list[i], "")]
                      /\ mainpc' = "products"
                      /\ UNCHANGED retval
    /\ UNCHANGED <<pipeline, semaphore, product_sitemap_urls,
                   all_products_data, cats, cat_i, walk, all_data, output,
                   page_in, extracted,
                   prod_links>>

\* Lines 114-118: the product tasks are back; keep the records, save them,
\* return their number.
main_products ==
    /\ pipeline = "sitemap"
    /\ mainpc = "products"
    /\ Gathered("product")
    /\ IF GatherRaised("product")
       THEN /\ mainpc' = "crashed"
            /\ UNCHANGED <<all_products_data, output, retval>>
       ELSE LET data == Results(2 + Len(product_sitemap_urls),
                                Len(product_urls_list))
            IN  /\ all_products_data' = data
                /\ output' = save_data(data)
                /\ retval' = Len(data)
                /\ mainpc' = "done"
    /\ UNCHANGED <<pipeline, tasks, semaphore, product_sitemap_urls,
                   product_urls_list, cats, cat_i, walk, all_data, page_in,
                   extracted,
                   prod_links>>

\* Line 125: main raised out of asyncio.run(main()), which cancels every
\* task that is not over before it raises in turn.
asyncio_run_cancel ==
    /\ pipeline = "sitemap"
    /\ mainpc = "crashed"
    /\ mainpc' = "cancelled"
    /\ UNCHANGED <<pipeline, tasks, semaphore, product_sitemap_urls,
                   product_urls_list, all_products_data, cats, cat_i, walk,
                   prod_links, all_data, output, retval, page_in, extracted>>

-----------------------------------------------------------------------------
(* scraper.py: the site as the pagination pipeline reads it *)

\* CAT_PREFIX, line 11
CAT_PREFIX == "/product-category/"

\* href.startswith(CAT_PREFIX), line 45
StartsWithCatPrefix(href) ==
    href \in {CAT_PREFIX, "/product-category/a/", "/product-category/b/"}

Anchor(href, name) == [href |-> href, name |-> name]

\* Pages of BASE_SITE: their anchors with an href, in document order.
RootDocs ==
    {<<>>,
     <<Anchor("/product-category/a/", "A")>>,
     <<Anchor(CAT_PREFIX, "All"), Anchor("/product-category/a/", "A"),
       Anchor("/about/", "About"), Anchor("/product-category/a/", "A again"),
       Anchor("/product-category/b/", "B"), Anchor("/product-category/b/", "")>>}

\* The hrefs of the a.woocommerce-LoopProduct-link anchors of a listing page,
\* in document order; "" is an anchor without href.
LinkLists == {<<>>, <<"u1">>, <<"">>, <<"u1", "u2">>, <<"", "u1">>}

\* What session.get of a listing page ends in: an exception, or a response
\* with a status code and a body.
WalkResponses ==
    {[status |-> e, links |-> <<>>] : e \in RequestError}
    \cup {[status |-> "200", links |-> l] : l \in LinkLists}
    \cup {[status |-> c, links |-> l] : c \in {"404", "500"},
                                         l \in {<<>>, <<"u1">>}}

-----------------------------------------------------------------------------
(* scraper.py: fetch_soup *)

\* Line 32: except requests.RequestException
fetch_soup_caught == RequestError \cup {"HTTPStatusError", InvalidURL}

\* Line 27: for attempt in range(1, MAX_RETRIES + 2) has this iteration
fetch_soup_in_range(attempt) == 1 <= attempt /\ attempt < MAX_RETRIES + 2

\* Line 33: if attempt <= MAX_RETRIES
fetch_soup_again(attempt) == attempt <= MAX_RETRIES

\* Line 34: time.sleep(1)
fetch_soup_backoff(t) ==
    tasks' = [tasks EXCEPT ![t].pc = "sleep", ![t].delay = 1]

\* fetch_soup returned soup to its caller: get_all_category_links keeps it
\* for main, scrape_product_details goes on to line 83 and returns (or
\* raises) in its worker thread.
Return_soup(t, html) ==
    tasks' = [tasks EXCEPT ![t] = Over(tasks[t], html,
                 IF tasks[t].kind = "product"
                 THEN scrape_product_details(
                          IF html.ok THEN html.body ELSE EmptySoup,
                          tasks[t].category)
                 ELSE Null)]

\* scrape_product_details appending its record to all_data itself, in its
\* worker thread.
fetch_soup_respond_appends(t, outcome, doc) ==
    /\ pipeline = "pagination"
    /\ tasks[t].pc = "request"
    /\ IF outcome = "ok"
       THEN Return_soup(t, Html(doc))
       ELSE IF fetch_soup_again(tasks[t].attempt)
       THEN fetch_soup_backoff(t)
       ELSE Return_soup(t, Failure)
    /\ all_data' = IF tasks'[t].pc = "returned" /\ tasks'[t].ret.ok
                   THEN Append(all_data, [task |-> t,
                                          rec |-> tasks'[t].ret.body])
                   ELSE all_data
    /\ UNCHANGED <<pipeline, mainpc, semaphore, product_sitemap_urls,
                   product_urls_list, all_products_data, cats, cat_i, walk,
                   output, retval, page_in, extracted,
                   prod_links>>

\* Lines 29-37: the attempt ends: with a good response (return the soup), or
\* with an exception (time.sleep(1) and continue, or return the empty soup).
fetch_soup_respond(t, outcome, doc) ==
    /\ pipeline = "pagination"
    /\ tasks[t].pc = "request"
    /\ IF outcome = "ok"
       THEN Return_soup(t, Html(doc))
       ELSE IF outcome \notin fetch_soup_caught
       THEN tasks' = [tasks EXCEPT ![t] = Over(tasks[t], Raised, Raised)]
       ELSE IF fetch_soup_again(tasks[t].attempt)
       THEN fetch_soup_backoff(t)
       ELSE Return_soup(t, Failure)
    /\ UNCHANGED <<pipeline, mainpc, semaphore, product_sitemap_urls,
                   product_urls_list, all_products_data, cats, cat_i, walk,
                   all_data, output, retval, page_in, extracted,
                   prod_links>>

\* Lines 34-35 are over: the next iteration issues its session.get; past the
\* range the function would fall off its end and return None.
fetch_soup_retry(t) ==
    /\ pipeline = "pagination"
    /\ tasks[t].pc = "sleep"
    /\ IF fetch_soup_in_range(tasks[t].attempt + 1)
       THEN tasks' = [tasks EXCEPT ![t].pc = "request", ![t].delay = 0,
                                   ![t].attempt = tasks[t].attempt + 1,
                                   ![t].attempts = tasks[t].attempts + 1]
       ELSE tasks' = [tasks EXCEPT ![t] = Over(tasks[t], Raised, Raised)]
    /\ UNCHANGED <<pipeline, mainpc, semaphore, product_sitemap_urls,
                   product_urls_list, all_products_data, cats, cat_i, walk,
                   all_data, output, retval, page_in, extracted,
                   prod_links>>

-----------------------------------------------------------------------------
(* scraper.py: get_all_category_links, get_all_product_links *)

\* Lines 50-51: the first entry of every url, in order.
RECURSIVE Dedupe(_)
Dedupe(cs) ==
    IF cs = <<>> THEN <<>>
    ELSE LET n     == Len(cs)
             front == Dedupe(SubSeq(cs, 1, n - 1))
         IN  IF \E i \in DOMAIN front : front[i].url = cs[n].url
             THEN front ELSE Append(front, cs[n])

\* Lines 42-51, on the soup of BASE_SITE.
get_all_category_links(soup) ==
    LET keep(a) == /\ StartsWithCatPrefix(a.href)
                   /\ a.href # CAT_PREFIX
                   /\ a.name # ""
        as == SelectSeq(soup, keep)
    IN  Dedupe([i \in DOMAIN as |-> [name |-> as[i].name, url |-> as[i].href]])

\* Lines 55-56: the walk of a category starts, its first page is requested.
NewWalk == [page |-> 1, urls |-> <<>>, fetched |-> <<1>>, seen |-> <<>>]

NoWalk == [page |-> 0, urls |-> <<>>, fetched |-> <<>>, seen |-> <<>>]

\* The walk without line 64: a not-found page is read like any other.
WalkBreaks_without_404(resp) ==
    \/ resp.status \in RequestError
    \/ resp.links = <<>>

\* Lines 62-70: the walk ends at this response.
WalkBreaks(resp) ==
    \/ resp.status \in RequestError
    \/ resp.status = "404"
    \/ resp.links = <<>>

\* Lines 72-76: the response carries product links; the next page is
\* requested.
WalkOn(w, resp) ==
    [page    |-> w.page + 1,
     urls    |-> w.urls \o SelectSeq(resp.links, LAMBDA href : href # ""),
     fetched |-> Append(w.fetched, w.page + 1),
     seen    |-> Append(w.seen, resp)]

\* Line 145: executor.submit(scrape_product_details, url, cat["name"])
Submit(url, category) == NewTask("product", url, category)

-----------------------------------------------------------------------------
(* scraper.py: main *)

\* Lines 163-164: json.dump(all_data, f): the list of the records.
json_dump(data) ==
    [written |-> TRUE, products |-> [i \in DOMAIN data |-> data[i].rec]]

\* The product links listed so far in this run.
LinksSoFar ==
    Cardinality(TasksOf("product")) + Len(walk.urls) + Len(prod_links)

\* The worker threads that are running a task.
Running == {t \in DOMAIN tasks : tasks[t].pc \in {"request", "sleep"}}

\* Lines 130-132, 41: main starts; get_all_category_links calls fetch_soup,
\* which issues its first session.get in the main thread.
scraper_main_start ==
    /\ pipeline = "pagination"
    /\ mainpc = "start"
    /\ tasks' = <<[NewTask("root", "BASE_SITE", "") EXCEPT
                      !.pc = "request", !.attempt = 1, !.attempts = 1]>>
    /\ mainpc' = "root"
    /\ UNCHANGED <<pipeline, semaphore, product_sitemap_urls,
                   product_urls_list, all_products_data, cats, cat_i, walk,
                   all_data, output, retval, page_in, extracted,
                   prod_links>>

\* Lines 42-51, 132-139: the soup of BASE_SITE is back; the categories are
\* listed and the walk of the first one starts.  Without categories the for
\* loop is empty and main dumps the empty list.
scraper_main_categories ==
    /\ pipeline = "pagination"
    /\ mainpc = "root"
    /\ tasks[1].pc = "returned"
    /\ IF tasks[1].ret.exc
       THEN /\ mainpc' = "crashed"
            /\ UNCHANGED <<cats, cat_i, walk, output>>
       ELSE LET soup == IF tasks[1].html.ok THEN tasks[1].html.body ELSE <<>>
                found == get_all_category_links(soup)
            IN  /\ cats' = found
                /\ IF found = <<>>
                   THEN /\ output' = json_dump(all_data)
                        /\ mainpc' = "done"
                        /\ UNCHANGED <<cat_i, walk>>
                   ELSE /\ cat_i' = 1
                        /\ walk' = NewWalk
                        /\ mainpc' = "walk"
                        /\ UNCHANGED output
    /\ UNCHANGED <<pipeline, tasks, semaphore, product_sitemap_urls,
                   product_urls_list, all_products_data, all_data, retval,
                   page_in, extracted,
                   prod_links>>

\* Lines 57-78: the session.get of the walk's page ends.  Either the walk
\* goes on and requests the next page, or it returns its urls.
get_all_product_links(resp) ==
    /\ pipeline = "pagination"
    /\ mainpc = "walk"
    /\ \/ WalkBreaks(resp)
       \/ /\ walk.page <= MaxPages
          /\ LinksSoFar + Len(resp.links) <= MaxLinks
    /\ IF WalkBreaks(resp)
       THEN /\ walk' = [walk EXCEPT !.seen = Append(walk.seen, resp)]
            /\ mainpc' = "walked"
       ELSE /\ walk' = WalkOn(walk, resp)
            /\ UNCHANGED mainpc
    /\ UNCHANGED <<pipeline, tasks, semaphore, product_sitemap_urls,
                   product_urls_list, all_products_data, cats, cat_i,
                   all_data, output, retval, page_in, extracted,
                   prod_links>>

\* Lines 139-147: the walk has returned its urls (its locals are gone) and
\* main enters the executor; then one call of executor.submit per step, in
\* the order of the urls.  The workers started by the earlier calls run
\* between the calls.
scraper_main_submit ==
    /\ pipeline = "pagination"
    /\ \/ mainpc = "walked"
       \/ mainpc = "pool" /\ prod_links # <<>>
    /\ LET pending == IF mainpc = "walked" THEN walk.urls ELSE prod_links
       IN  IF pending = <<>>
           THEN /\ tasks' = tasks
                /\ prod_links' = <<>>
           ELSE /\ tasks' = Append(tasks,
                                   Submit(Head(pending), cats[cat_i].name))
                /\ prod_links' = Tail(pending)
    /\ walk' = NoWalk
    /\ mainpc' = "pool"
    /\ UNCHANGED <<pipeline, semaphore, product_sitemap_urls,
                   product_urls_list, all_products_data, cats, cat_i,
                   all_data, output, retval, page_in, extracted>>

\* The work items a worker thread has taken off the queue without having
\* issued its first request: the queue is first in first out and there are
\* MAX_WORKERS threads, so they are the oldest waiting tasks, as many as
\* there are threads not running a request.
Taken(t) ==
    /\ tasks[t].pc = "wait"
    /\ Cardinality({u \in 1..(t - 1) : tasks[u].pc = "wait"})
         + Cardinality(Running) < MAX_WORKERS

\* ThreadPoolExecutor(max_workers = MAX_WORKERS): a worker thread that has
\* taken the task runs scrape_product_details up to the first session.get
\* of fetch_soup (lines 82, 27-29).
executor_run(t) ==
    /\ pipeline = "pagination"
    /\ mainpc = "pool"
    /\ Taken(t)
    /\ tasks' = [tasks EXCEPT ![t].pc = "request", ![t].attempt = 1,
                              ![t].attempts = 1]
    /\ UNCHANGED <<pipeline, mainpc, semaphore, product_sitemap_urls,
                   product_urls_list, all_products_data, cats, cat_i, walk,
                   all_data, output, retval, page_in, extracted,
                   prod_links>>

\* Line 158 as all_data = [future.result()]: the list is replaced by the
\* result that arrived last.
scraper_main_collect_overwrite(t) ==
    /\ pipeline = "pagination"
    /\ mainpc = "pool"
    /\ prod_links = <<>>
    /\ tasks[t].kind = "product"
    /\ tasks[t].pc = "returned"
    /\ ~tasks[t].collected
    /\ tasks' = [tasks EXCEPT ![t].collected = TRUE]
    /\ all_data' = IF tasks[t].ret.exc THEN all_data
                   ELSE <<[task |-> t, rec |-> tasks[t].ret.body]>>
    /\ UNCHANGED <<pipeline, mainpc, semaphore, product_sitemap_urls,
                   product_urls_list, all_products_data, cats, cat_i, walk,
                   output, retval, page_in, extracted,
                   prod_links>>

\* Lines 149-160: as_completed yields a finished future; its result is
\* appended, its exception is printed.  `task` keeps futures[future].
scraper_main_collect(t) ==
    /\ pipeline = "pagination"
    /\ mainpc = "pool"
    /\ prod_links = <<>>
    /\ tasks[t].kind = "product"
    /\ tasks[t].pc = "returned"
    /\ ~tasks[t].collected
    /\ tasks' = [tasks EXCEPT ![t].collected = TRUE]
    /\ all_data' = IF tasks[t].ret.exc THEN all_data
                   ELSE Append(all_data, [task |-> t, rec |-> tasks[t].ret.body])
    /\ UNCHANGED <<pipeline, mainpc, semaphore, product_sitemap_urls,
                   product_urls_list, all_products_data, cats, cat_i, walk,
                   output, retval, page_in, extracted,
                   prod_links>>

\* Lines 137, 160-166: every future of the category has been taken; the
\* executor shuts down, main walks the next category or dumps the list.
scraper_main_next ==
    /\ pipeline = "pagination"
    /\ mainpc = "pool"
    /\ prod_links = <<>>
    /\ \A t \in TasksOf("product") : tasks[t].collected
    /\ IF cat_i < Len(cats)
       THEN /\ cat_i' = cat_i + 1
            /\ walk' = NewWalk
            /\ mainpc' = "walk"
            /\ UNCHANGED output
       ELSE /\ output' = json_dump(all_data)
            /\ mainpc' = "done"
            /\ UNCHANGED <<cat_i, walk>>
    /\ UNCHANGED <<pipeline, tasks, semaphore, product_sitemap_urls,
                   product_urls_list, all_products_data, cats, all_data,
                   retval, page_in, extracted,
                   prod_links>>

-----------------------------------------------------------------------------
(* The extractors alone, on one page *)

\* Digits, the separators, letters, the space and a currency symbol.
Alphabet == {"R", "s", "$", ".", ",", " ", "1", "0"}

\* "Rs. 125,000.00"
RsText == <<"R", "s", ".", " ", "1", "2", "5", ",", "0", "0", "0", ".", "0", "0">>

SampleTexts ==
    {RsText,
     <<"1", "2", "5", ",", "0", "0", "0", ".", "0", "0">>,
     <<" ", "9", "9", " ">>}

Texts == SeqsUpTo(Alphabet, MaxLen) \cup SampleTexts

AmountLists ==
    {<<>>}
    \cup {<<Amount(sel, x)>> : sel \in 1..6, x \in Texts}
    \cup {<<Amount(s1, x1), Amount(s2, x2)>> :
             s1 \in 1..6, s2 \in 1..6, x1 \in SampleTexts, x2 \in SampleTexts}

\* Category label texts: a brand in three spellings, one of them padded,
\* another brand, a label that is no brand, an anchor without text.
Labels ==
    {<<"H", "P">>, <<"h", "p">>, <<" ", "H", "p", " ">>,
     <<"D", "e", "l", "l">>, <<"L", "a", "p", "s">>, <<>>}

LabelLists == SeqsUpTo(Labels, MaxLabels)

ExtractPages ==
    {[ProductPage("7", amounts) EXCEPT
         !.bdi = IF amounts = <<>> THEN None ELSE amounts[1].text] :
        amounts \in AmountLists}
    \cup {[ProductPage("7", <<>>) EXCEPT !.categories = labels] :
             labels \in LabelLists}
    \cup SitePages \cup ShopPages \cup {EmptySoup}

\* parse_product_data(html, url) on the page.
extract_parse ==
    /\ pipeline = "extract"
    /\ mainpc = "start"
    /\ extracted' = parse_product_data(page_in, "u1")
    /\ mainpc' = "parsed"
    /\ UNCHANGED <<pipeline, tasks, semaphore, product_sitemap_urls,
                   product_urls_list, all_products_data, cats, cat_i, walk,
                   all_data, output, retval, page_in,
                   prod_links>>

\* scrape_product_details on the soup of the page.
extract_scrape ==
    /\ pipeline = "extract"
    /\ mainpc = "start"
    /\ extracted' = scrape_product_details(page_in, "A")
    /\ mainpc' = "scraped"
    /\ UNCHANGED <<pipeline, tasks, semaphore, product_sitemap_urls,
                   product_urls_list, all_products_data, cats, cat_i, walk,
                   all_data, output, retval, page_in,
                   prod_links>>

-----------------------------------------------------------------------------
(* Specification *)

Init ==
    /\ pipeline \in {"sitemap", "pagination", "extract"}
    /\ mainpc = "start"
    /\ tasks = <<>>
    /\ semaphore = max_connections
    /\ product_sitemap_urls = <<>>
    /\ product_urls_list = <<>>
    /\ all_products_data = <<>>
    /\ cats = <<>>
    /\ cat_i = 0
    /\ walk = NoWalk
    /\ prod_links = <<>>
    /\ all_data = <<>>
    /\ output = [written |-> FALSE]
    /\ retval = -1
    /\ page_in \in IF pipeline = "extract" THEN ExtractPages ELSE {EmptySoup}
    /\ extracted = Null

\* What an attempt can end in.
Outcomes == {"ok"} \cup Errors \cup {InvalidURL}

\* What an attempt of fetch_page can end in: the url is refused at the first
\* client.get or never; the url of the sitemap index is a constant of main.
fetch_page_outcomes(t) ==
    IF tasks[t].kind # "index" /\ tasks[t].attempts = 1
    THEN Outcomes
    ELSE Outcomes \ {InvalidURL}

Next ==
    \/ main_start
    \/ main_index
    \/ main_sitemaps
    \/ main_products
    \/ \E t \in DOMAIN tasks : fetch_page_acquire(t)
    \/ \E t \in DOMAIN tasks : \E outcome \in fetch_page_outcomes(t) :
          \E doc \in IF outcome = "ok" THEN DocsFor(tasks[t].kind) ELSE {<<>>} :
             fetch_page_respond(t, outcome, doc)
    \/ \E t \in DOMAIN tasks : fetch_page_retry(t)
    \/ asyncio_run_cancel
    \/ \E t \in DOMAIN tasks : fetch_page_cancelled(t)
    \/ scraper_main_start
    \/ scraper_main_categories
    \/ \E resp \in WalkResponses : get_all_product_links(resp)
    \/ scraper_main_submit
    \/ \E t \in DOMAIN tasks : executor_run(t)
    \/ \E t \in DOMAIN tasks : \E outcome \in Outcomes :
          \E doc \in IF outcome = "ok"
                     THEN IF tasks[t].kind = "root" THEN RootDocs ELSE ShopPages
                     ELSE {<<>>} :
             fetch_soup_respond(t, outcome, doc)
    \/ \E t \in DOMAIN tasks : fetch_soup_retry(t)
    \/ \E t \in DOMAIN tasks : scraper_main_collect(t)
    \/ scraper_main_next
    \/ extract_parse
    \/ extract_scrape

Spec == Init /\ [][Next]_vars

\* A run of LaptoplkScraper.main alone, with the scheduling of the event
\* loop: a task that can take a free slot does, a request that is
\* outstanding ends (timeout=30, line 27), a delay ends, and main goes on
\* once what it awaits is over.
InitSitemap == Init /\ pipeline = "sitemap"

\* The most tasks a run of LaptoplkScraper.main creates: the index, the
\* product sitemaps of the index, the product URLs.
MaxTasks ==
    LET sitemaps == {Len(ProductSitemapsOf(index_xml)) : index_xml \in IndexDocs}
    IN  1 + (CHOOSE n \in sitemaps : \A m \in sitemaps : m <= n)
          + Cardinality(URLS)

fetch_page_admission(t) == t \in DOMAIN tasks /\ fetch_page_acquire(t)

fetch_page_attempt(t) ==
    /\ t \in DOMAIN tasks
    /\ \E outcome \in fetch_page_outcomes(t) :
          \E doc \in IF outcome = "ok" THEN DocsFor(tasks[t].kind) ELSE {<<>>} :
             fetch_page_respond(t, outcome, doc)

fetch_page_delay(t) == t \in DOMAIN tasks /\ fetch_page_retry(t)

fetch_page_cancellation(t) == t \in DOMAIN tasks /\ fetch_page_cancelled(t)

NextSitemap ==
    \/ main_start
    \/ main_index
    \/ main_sitemaps
    \/ main_products
    \/ \E t \in 1..MaxTasks : fetch_page_admission(t)
    \/ \E t \in 1..MaxTasks : fetch_page_attempt(t)
    \/ \E t \in 1..MaxTasks : fetch_page_delay(t)
    \/ asyncio_run_cancel
    \/ \E t \in 1..MaxTasks : fetch_page_cancellation(t)

Fairness ==
    /\ WF_vars(main_start \/ main_index \/ main_sitemaps \/ main_products)
    /\ WF_vars(asyncio_run_cancel)
    /\ \A t \in 1..MaxTasks :
          /\ WF_vars(fetch_page_admission(t))
          /\ WF_vars(fetch_page_attempt(t))
          /\ WF_vars(fetch_page_delay(t))
          /\ WF_vars(fetch_page_cancellation(t))

SpecSitemap == InitSitemap /\ [][NextSitemap]_vars /\ Fairness

-----------------------------------------------------------------------------
(* Claims *)

\* The identifier of a record of the sitemap pipeline: the native product id,
\* the source URL when there is none.
Identifier(rec) ==
    IF rec.product_id_native = "" THEN rec.product_url
    ELSE rec.product_id_native

\* The identifiers of the records of the final collection, in order.  A record
\* of the pagination pipeline has no native id: its identifier is the URL of
\* its task.
OutputIdentifiers ==
    IF pipeline = "sitemap"
    THEN [i \in DOMAIN all_products_data |-> Identifier(all_products_data[i])]
    ELSE [i \in DOMAIN all_data |-> tasks[all_data[i].task].url]

\* C1: in a completed run no two records of the final products collection
\* share an identifier.
C1_Dedup ==
    mainpc = "done" =>
        \A i, j \in DOMAIN OutputIdentifiers :
            i # j => OutputIdentifiers[i] # OutputIdentifiers[j]

\* The product task t fetched a page and its extraction gave a record.
Succeeded(t) ==
    /\ tasks[t].kind = "product"
    /\ tasks[t].pc = "returned"
    /\ tasks[t].html.ok
    /\ tasks[t].ret.ok

\* C2: in every final state every record of the output is the record of a
\* task whose fetch returned a page and whose extraction returned a record; a
\* task whose fetch failed or whose page has no product container has none.
C2_OnlyExtracted ==
    mainpc = "done" =>
        /\ \A i \in DOMAIN all_products_data :
              \E t \in TasksOf("product") :
                 /\ Succeeded(t)
                 /\ tasks[t].html.body.container
                 /\ tasks[t].ret.body = all_products_data[i]
        /\ \A i \in DOMAIN all_data :
              /\ Succeeded(all_data[i].task)
              /\ tasks[all_data[i].task].html.body.container

\* The retry limit of the pipeline's fetch function.
MaxRetries == IF pipeline = "sitemap" THEN max_retries ELSE MAX_RETRIES

\* The HTTP attempts task t has issued, 0 before the task exists.
AttemptsOf(ts, t) == IF t \in DOMAIN ts THEN ts[t].attempts ELSE 0

\* C3: a fetch task issues at most maxRetries + 1 HTTP attempts, one at a
\* time, and none once it has returned (with the page or with Failure).
C3_BoundedAttempts ==
    [][\A t \in DOMAIN tasks' :
          /\ tasks'[t].attempts <= MaxRetries + 1
          /\ tasks'[t].attempts > AttemptsOf(tasks, t) =>
                /\ tasks'[t].attempts = AttemptsOf(tasks, t) + 1
                /\ tasks'[t].pc = "request"
          /\ (t \in DOMAIN tasks /\ tasks[t].pc = "returned") =>
                (tasks'[t].pc = "returned" /\ tasks'[t].attempts = 0)]_vars

\* A fetch_soup task is in its last attempt, after MAX_RETRIES failed ones.
C3_Witness ==
    \E t \in DOMAIN tasks :
        /\ pipeline = "pagination"
        /\ tasks[t].pc = "request"
        /\ tasks[t].attempts = MAX_RETRIES + 1

\* The HTTP requests that are outstanding: those of the fetch tasks and, in
\* the pagination pipeline, the page request of the walk.
OutstandingRequests ==
    Cardinality({t \in DOMAIN tasks : Outstanding(t)})
    + (IF mainpc = "walk" THEN 1 ELSE 0)

\* The concurrency bound of the pipeline.
ConcurrencyBound ==
    IF pipeline = "sitemap" THEN max_connections ELSE MAX_WORKERS

\* C4: at no time are more than N HTTP requests outstanding, whatever the
\* number of tasks.
C4_ConcurrencyBound == OutstandingRequests <= ConcurrencyBound

\* N requests are outstanding while a further task waits for its turn.
C4_Witness ==
    /\ OutstandingRequests = ConcurrencyBound
    /\ \E t \in DOMAIN tasks : tasks[t].pc = "wait"

\* C5: a fetch never raises: it returns the page or the Failure value, and
\* main is never ended by an exception of a task.
C5_FetchNeverRaises ==
    /\ mainpc \notin {"crashed", "cancelled"}
    /\ \A t \in DOMAIN tasks :
          tasks[t].pc = "returned" =>
              /\ ~tasks[t].html.exc
              /\ tasks[t].html.ok \/ tasks[t].html = Failure

\* C6: every run that ends has written the output artifact; without any
\* discovered product its products collection is empty.
C6_AlwaysWrites ==
    mainpc = "done" =>
        /\ output.written
        /\ TasksOf("product") = {} => output.products = <<>>

\* The page of product task t was fetched and its extraction cannot fail: the
\* sitemap pipeline needs the product container and a readable tree, the
\* pagination pipeline an attribute table without missing cells.
GoodPage(t) ==
    /\ tasks[t].pc = "returned"
    /\ tasks[t].html.ok
    /\ LET page == tasks[t].html.body
       IN  IF pipeline = "sitemap"
           THEN page.container /\ ~page.malformed
           ELSE ~(page.has_table /\ \E i \in DOMAIN page.rows :
                     page.rows[i].th = None \/ page.rows[i].td = None)

\* The record of product task t, extracted from its own page alone.
OwnRecord(t) ==
    IF pipeline = "sitemap"
    THEN parse_product_data_try(tasks[t].html.body, tasks[t].url).body
    ELSE scrape_product_details(tasks[t].html.body, tasks[t].category).body

\* The places of the output that hold a record of product task t.
PlacesOf(t) ==
    IF pipeline = "sitemap"
    THEN {i \in DOMAIN all_products_data :
             all_products_data[i].product_url = tasks[t].url}
    ELSE {i \in DOMAIN all_data : all_data[i].task = t}

RecordAt(i) ==
    IF pipeline = "sitemap" THEN all_products_data[i] ELSE all_data[i].rec

\* C7: no task's failure ends the run, and in the final state every task
\* that succeeded has exactly its own record in the output, whatever its
\* siblings ended in.
C7_Isolation ==
    /\ mainpc \notin {"crashed", "cancelled"}
    /\ mainpc = "done" =>
          \A t \in TasksOf("product") :
              GoodPage(t) =>
                  /\ Cardinality(PlacesOf(t)) = 1
                  /\ \A i \in PlacesOf(t) : RecordAt(i) = OwnRecord(t)

\* The listing page answered with at least one product link (and not with
\* a not-found status).
Yields(resp) ==
    /\ resp.status \notin RequestError
    /\ resp.status # "404"
    /\ resp.links # <<>>

\* The listing page answered with no product link, or with not-found.
EndsPagination(resp) ==
    /\ resp.status \notin RequestError
    /\ resp.status = "404" \/ resp.links = <<>>

\* The product URLs of the first n answers, in order.
RECURSIVE LinksOf(_, _)
LinksOf(seen, n) ==
    IF n = 0 THEN <<>>
    ELSE LinksOf(seen, n - 1) \o SelectSeq(seen[n].links, LAMBDA h : h # "")

\* C8: the walk requests the pages 1, 2, ... in order, once each; it goes on
\* exactly as long as the answers carry product links; and when pages 1..k
\* carried links and page k+1 none (or not-found), pages 1..k+1 were fetched
\* and the URLs returned are those of pages 1..k.
C8_PaginationWalk ==
    /\ mainpc \in {"walk", "walked"} =>
          /\ walk.fetched = [i \in 1..Len(walk.fetched) |-> i]
          /\ \A i \in 1..(Len(walk.fetched) - 1) : Yields(walk.seen[i])
    /\ mainpc = "walk" => Len(walk.fetched) = Len(walk.seen) + 1
    /\ mainpc = "walked" =>
          LET k == Len(walk.seen) - 1
          IN  /\ k >= 0
              /\ Len(walk.fetched) = k + 1
              /\ ~Yields(walk.seen[k + 1])
              /\ EndsPagination(walk.seen[k + 1]) =>
                     walk.urls = LinksOf(walk.seen, k)

\* A walk with k = 3: three pages with links, the fourth without; the URLs
\* of the three are returned.
C8_Witness ==
    /\ mainpc = "walked"
    /\ Len(walk.seen) = 4
    /\ walk.fetched = <<1, 2, 3, 4>>
    /\ walk.seen[4].status = "200" /\ walk.seen[4].links = <<>>
    /\ Len(walk.urls) = 3

\* The leaf URLs of the product sitemaps that were fetched.
LeafUrls ==
    UNION {Range(tasks[t].html.body) :
              t \in {u \in TasksOf("sitemap") : tasks[u].html.ok}}

\* C9: the product tasks dispatched are exactly one per distinct leaf URL of
\* the fetched product sitemaps, and when all of them are fetched and parsed
\* total_products_extracted is the number of distinct URLs.
C9_SitemapDiscovery ==
    (pipeline = "sitemap" /\ mainpc \in {"products", "done"}) =>
        /\ \A t \in TasksOf("product") : tasks[t].url \in LeafUrls
        /\ \A u \in LeafUrls :
              Cardinality({t \in TasksOf("product") : tasks[t].url = u}) = 1
        /\ (/\ mainpc = "done"
            /\ LeafUrls # {}
            /\ \A t \in TasksOf("product") : Succeeded(t)) =>
               /\ output.written
               /\ output.total_products_extracted = Cardinality(LeafUrls)

\* Two sitemaps of two URLs each, one URL shared: three tasks, all fetched
\* and parsed, total_products_extracted = 3.
C9_Witness ==
    /\ pipeline = "sitemap"
    /\ mainpc = "done"
    /\ Len(product_sitemap_urls) = 2
    /\ tasks[2].html = Html(<<"u1", "u2">>)
    /\ tasks[3].html = Html(<<"u2", "u3">>)
    /\ Cardinality(TasksOf("product")) = 3
    /\ \A t \in TasksOf("product") : Succeeded(t)
    /\ output.written
    /\ output.total_products_extracted = 3

\* "125000.00"
Rs125000 == <<"1", "2", "5", "0", "0", "0", ".", "0", "0">>

\* C10: on a product page without a node for the primary price alternative
\* whose secondary price node reads "Rs. 125,000.00", the extracted
\* price_current is "125000.00".
C10_PriceFallback ==
    (/\ pipeline = "extract"
     /\ mainpc = "parsed"
     /\ page_in.container /\ ~page_in.malformed
     /\ \A i \in DOMAIN page_in.amounts : page_in.amounts[i].sel # 1
     /\ css_first(page_in.amounts, <<2, 3, 4>>).ok
     /\ css_first(page_in.amounts, <<2, 3, 4>>).body.text = RsText) =>
        /\ extracted.ok
        /\ extracted.body.price_current = Rs125000

\* The text is made of digits and at most one decimal point.
IsNumericText(text) ==
    /\ \A i \in DOMAIN text : text[i] \in Digits \cup {"."}
    /\ Cardinality({i \in DOMAIN text : text[i] = "."}) <= 1

\* C11: the current price of every record, of the output and of either
\* extractor, is made only of digits and at most one decimal point, whatever
\* the price text of the page (a dotted currency prefix, several dots, no
\* price node at all).
C11_PriceShape ==
    /\ \A i \in DOMAIN all_products_data :
          IsNumericText(all_products_data[i].price_current)
    /\ \A i \in DOMAIN all_data : IsNumericText(all_data[i].rec.price)
    /\ (pipeline = "extract" /\ mainpc = "parsed" /\ extracted.ok) =>
          IsNumericText(extracted.body.price_current)
    /\ (pipeline = "extract" /\ mainpc = "scraped" /\ extracted.ok) =>
          IsNumericText(extracted.body.price)

\* The price texts of the page the extractor was handed.
PriceTexts == {page_in.amounts[i].text : i \in DOMAIN page_in.amounts}

\* C12: price normalization is idempotent: normalizing a normalized price
\* text changes nothing, for every price text of the page and for the prices
\* parse_product_data extracted from it.
C12_Idempotent ==
    pipeline = "extract" =>
        /\ \A x \in PriceTexts :
              normalizePrice(normalizePrice(x)) = normalizePrice(x)
        /\ (mainpc = "parsed" /\ extracted.ok) =>
              /\ normalizePrice(extracted.body.price_current)
                    = extracted.body.price_current
              /\ extracted.body.price_original # None =>
                    normalizePrice(extracted.body.price_original)
                      = extracted.body.price_original

\* parse_product_data normalized a price text of which more than one
\* character is removed and some are kept.
C12_Witness ==
    /\ pipeline = "extract"
    /\ mainpc = "parsed"
    /\ extracted.ok
    /\ \E x \in PriceTexts :
          /\ extracted.body.price_current = normalizePrice(Strip(x))
          /\ Len(normalizePrice(x)) + 2 <= Len(x)
          /\ normalizePrice(x) # <<>>

\* The category labels of the page, as the extractor reads them.
LabelsOf(page) == [i \in DOMAIN page.categories |-> Strip(page.categories[i])]

\* The label is a known brand, whatever its letter case.
IsKnownBrand(label) == lower(label) \in KnownBrands

\* C13: the brand is the first label whose lowercase form is a known brand;
\* category_path is the other labels in order, none of them equal to the
\* brand up to letter case; without a known-brand label there is no brand
\* and category_path is all the labels.
C13_BrandSplit ==
    (pipeline = "extract" /\ mainpc = "parsed" /\ extracted.ok) =>
        LET labels == LabelsOf(page_in)
            rec    == extracted.body
        IN  IF \E i \in DOMAIN labels : IsKnownBrand(labels[i])
            THEN /\ \E i \in DOMAIN labels :
                      /\ rec.brand = labels[i]
                      /\ IsKnownBrand(labels[i])
                      /\ \A j \in 1..(i - 1) : ~IsKnownBrand(labels[j])
                 /\ rec.category_path =
                       SelectSeq(labels,
                                 LAMBDA c : lower(c) # lower(rec.brand))
            ELSE /\ rec.brand = None
                 /\ rec.category_path = labels

\* C14: a task sleeps only between a failed attempt and the retry that
\* follows it, and the delay before attempt k (k >= 1, the first attempt
\* being attempt 0) is 2^(k-1) seconds; no delay precedes the first attempt
\* or follows the last one.  In a back-off the task has issued attempts
\* 0..k-1, so k is the number of attempts issued.
C14_Backoff ==
    \A t \in DOMAIN tasks :
        IF tasks[t].pc = "sleep"
        THEN /\ tasks[t].attempts >= 1
             /\ tasks[t].attempts <= MaxRetries
             /\ tasks[t].delay = Pow2(tasks[t].attempts - 1)
        ELSE tasks[t].delay = 0

\* The tasks that hold an admission slot: between their first attempt and
\* their final result.
Holding(ts) == {t \in DOMAIN ts : ts[t].pc \in {"request", "sleep"}}

\* Where task t is before a step; a task created by the step was waiting.
PcOf(ts, t) == IF t \in DOMAIN ts THEN ts[t].pc ELSE "wait"

\* C15: a fetch_page task takes its slot once, with its first attempt, keeps
\* it through every attempt and every back-off delay, and gives it back when
\* it returns; so the free slots are max_connections less the tasks between
\* first attempt and final result, which are never more than max_connections.
C15_SlotHeld ==
    [][pipeline = "sitemap" =>
          LET admitted == {t \in DOMAIN tasks' :
                              PcOf(tasks, t) = "wait" /\ t \in Holding(tasks')}
              finished == {t \in Holding(tasks) : tasks'[t].pc = "returned"}
          IN  /\ semaphore' = semaphore - Cardinality(admitted)
                                        + Cardinality(finished)
              /\ \A t \in admitted :
                    /\ semaphore > 0
                    /\ tasks'[t].pc = "request"
                    /\ tasks'[t].attempts = 1
              /\ \A t \in Holding(tasks) : tasks'[t].pc # "wait"
              /\ \A t \in DOMAIN tasks :
                    tasks[t].pc = "returned" => tasks'[t].pc = "returned"
              /\ semaphore' = max_connections - Cardinality(Holding(tasks'))
              /\ Cardinality(Holding(tasks')) <= max_connections]_vars

\* Every slot is taken, one of the holders is in the back-off delay after its
\* second failed attempt, and a further task waits for a slot.
C15_Witness ==
    /\ pipeline = "sitemap"
    /\ semaphore = 0
    /\ \E t \in DOMAIN tasks : tasks[t].pc = "sleep" /\ tasks[t].attempts = 2
    /\ \E t \in DOMAIN tasks : tasks[t].pc = "wait"

\* The requests the walk has issued for the listing page.
RequestsFor(page) ==
    Cardinality({i \in DOMAIN walk.fetched : walk.fetched[i] = page})

\* The request ended in a timeout, a transport error or an error status
\* other than not-found.
Retryable(resp) == resp.status \in RequestError \cup {"500"}

\* C16: a request of the walk that ends in a timeout, a transport error or
\* an error status other than not-found is retried before the walk treats it
\* as a failure: a walk that ended at such an answer had requested that page
\* more than once.
C16_WalkRetries ==
    mainpc = "walked" =>
        LET page == Len(walk.seen)
        IN  Retryable(walk.seen[page]) => RequestsFor(page) >= 2

\* C17: a fetch in which every attempt failed has issued exactly
\* maxRetries + 1 attempts when it returns Failure.
C17_ExactAttempts ==
    [][\A t \in DOMAIN tasks :
          (/\ tasks[t].pc = "request"
           /\ tasks'[t].pc = "returned"
           /\ tasks'[t].html = Failure) =>
              tasks[t].attempts = MaxRetries + 1]_vars

\* The product tasks whose result main has taken and that returned a record.
Delivered == {t \in TasksOf("product") : tasks[t].collected /\ tasks[t].ret.ok}

\* The sitemap pipeline's product tasks, in the order of their creation.
ProductTasks ==
    [i \in 1..Cardinality(TasksOf("product")) |->
        1 + Len(product_sitemap_urls) + i]

\* The records of the sitemap pipeline's product tasks that returned one, in
\* the order of the tasks.
RecordsInTaskOrder ==
    LET kept == SelectSeq(ProductTasks, LAMBDA t : tasks[t].ret.ok)
    IN  [i \in DOMAIN kept |-> tasks[kept[i]].ret.body]

\* C18: the collection of output records is a function of the tasks and of
\* what each of them returned, whatever the order in which they completed:
\* the pagination pipeline holds the record of every task that returned one,
\* once each (the first record to arrive with an identifier included), the
\* sitemap pipeline holds those records in the order of the tasks.
C18_OrderIndependent ==
    /\ pipeline = "pagination" =>
          /\ \A i \in DOMAIN all_data :
                /\ all_data[i].task \in Delivered
                /\ all_data[i].rec = tasks[all_data[i].task].ret.body
          /\ \A t \in Delivered :
                Cardinality({i \in DOMAIN all_data : all_data[i].task = t}) = 1
          /\ mainpc = "done" =>
                /\ \A t \in TasksOf("product") : tasks[t].collected
                /\ output.products = [i \in DOMAIN all_data |-> all_data[i].rec]
    /\ (pipeline = "sitemap" /\ mainpc = "done" /\ output.written) =>
          /\ all_products_data = RecordsInTaskOrder
          /\ output.products = RecordsInTaskOrder

\* A completed pagination run in which a task submitted later delivered its
\* record before a task submitted earlier, and both records are written.
C18_Witness ==
    /\ pipeline = "pagination"
    /\ mainpc = "done"
    /\ output.written
    /\ \E i, j \in DOMAIN all_data :
          /\ i < j
          /\ all_data[i].task > all_data[j].task
          /\ cats[1].name = tasks[all_data[i].task].category
          /\ cats[1].name = tasks[all_data[j].task].category
    /\ Len(output.products) = Len(all_data)

\* The step is one of task t's worker: its fetch moved on.
WorkerStep(t) ==
    /\ t \in DOMAIN tasks
    /\ t \in DOMAIN tasks'
    /\ [tasks'[t] EXCEPT !.collected = FALSE]
         # [tasks[t] EXCEPT !.collected = FALSE]

\* C19: the output collection is written by the coordinator alone, one
\* insertion per step: the pagination pipeline's main appends the result of
\* one finished task, the sitemap pipeline's main builds the list once every
\* task is over.  A worker's step changes its own task (and the admission
\* gate) and nothing else: not the collection, not a sibling.
C19_SerializedInsertions ==
    [][/\ all_data' # all_data =>
             /\ mainpc = "pool"
             /\ \E t \in TasksOf("product") :
                   /\ tasks[t].pc = "returned"
                   /\ ~tasks[t].collected
                   /\ tasks' = [tasks EXCEPT ![t].collected = TRUE]
                   /\ all_data' = Append(all_data,
                                         [task |-> t, rec |-> tasks[t].ret.body])
       /\ all_products_data' # all_products_data =>
             /\ mainpc = "products"
             /\ tasks' = tasks
             /\ \A t \in DOMAIN tasks : tasks[t].pc = "returned"
       /\ \A t \in DOMAIN tasks :
             WorkerStep(t) =>
                 /\ \A u \in DOMAIN tasks' : u # t => tasks'[u] = tasks[u]
                 /\ UNCHANGED <<all_data, all_products_data, output, mainpc,
                                product_sitemap_urls, product_urls_list, cats,
                                cat_i, walk, retval>>]_vars

\* Main has appended the record of one task while two of its siblings are
\* still fetching.
C19_Witness ==
    /\ pipeline = "pagination"
    /\ Len(all_data) >= 1
    /\ Cardinality(Running) = 2

\* Task t exists and its fetch has returned, with a page or with None.
Returned(t) ==
    /\ t \in DOMAIN tasks
    /\ tasks[t].pc = "returned"
    /\ ~tasks[t].html.exc

\* Task t exists and waits for an admission slot.
Waiting(t) == t \in DOMAIN tasks /\ tasks[t].pc = "wait"

\* Task t has a slot and its request is outstanding: the state every task
\* is in right after its admission.
Admitted(t) == t \in DOMAIN tasks /\ tasks[t].pc = "request"

\* C20: under weak fairness every fetch_page task eventually returns, every
\* task waiting for a slot is eventually admitted, and no exit path keeps
\* the slot: whenever all the tasks created so far have returned, the free
\* slots are max_connections again.
C20_NoSlotLeak ==
    /\ \A t \in 1..MaxTasks : (t \in DOMAIN tasks) ~> Returned(t)
    /\ \A t \in 1..MaxTasks : Waiting(t) ~> Admitted(t)
    /\ []((\A t \in DOMAIN tasks : tasks[t].pc = "returned") =>
             semaphore = max_connections)

====
